---------------------------- MODULE Spec2Model ----------------------------
(***************************************************************************)
(* Model of skills/security-audit/scripts/auditor.py: the RepoAuditor      *)
(* class (constructor, audit, scan_file) and the __main__ block.           *)
(*                                                                         *)
(* Text is modelled as a sequence of one-character strings, so that the    *)
(* regular expressions, the substring tests, str.startswith and the        *)
(* ordering used by sorted() are computed character by character.          *)
(***************************************************************************)
EXTENDS Integers, Sequences, FiniteSets

(***************************************************************************)
(* Bounds of the model.                                                    *)
(***************************************************************************)
\* Largest number of regular files in the scanned tree.
MaxFiles == 2
\* Largest number of audit() calls in one behaviour.
MaxAudits == 2

(***************************************************************************)
(* Characters.                                                             *)
(***************************************************************************)
\* The backquote (code point 96), which a TLA+ string literal cannot hold.
Backquote == "grave"

\* The printable ASCII characters in code-point order, 32 to 126.
Ascii ==
  << " ", "!", "\"", "#", "$", "%", "&", "'", "(", ")", "*", "+", ",", "-",
     ".", "/", "0", "1", "2", "3", "4", "5", "6", "7", "8", "9", ":", ";",
     "<", "=", ">", "?", "@", "A", "B", "C", "D", "E", "F", "G", "H", "I",
     "J", "K", "L", "M", "N", "O", "P", "Q", "R", "S", "T", "U", "V", "W",
     "X", "Y", "Z", "[", "\\", "]", "^", "_", Backquote, "a", "b", "c", "d", "e",
     "f", "g", "h", "i", "j", "k", "l", "m", "n", "o", "p", "q", "r", "s",
     "t", "u", "v", "w", "x", "y", "z", "{", "|", "}", "~" >>

\* ord(c) for the characters of the model: printable ASCII and newline.
Ord(c) == IF c = "\n" THEN 10 ELSE 31 + CHOOSE i \in DOMAIN Ascii : Ascii[i] = c

CharsBetween(lo, hi) == { Ascii[i] : i \in { j \in DOMAIN Ascii : 31 + j >= Ord(lo) /\ 31 + j <= Ord(hi) } }

Range(s) == { s[i] : i \in DOMAIN s }

\* n copies of character c.
Rep(c, n) == [i \in 1..n |-> c]

(***************************************************************************)
(* Regular-expression primitives (re module semantics: leftmost match,     *)
(* greedy quantifiers, findall scans left to right without overlap).       *)
(***************************************************************************)
\* The literal w occurs in t at position i.
LitAt(t, i, w) ==
  /\ i + Len(w) - 1 <= Len(t)
  /\ \A k \in 1..Len(w) : t[i + k - 1] = w[k]

\* A greedy run of the class cls: the number of consecutive characters of cls
\* in t from position i on (the first position where the run stops).
RunLen(t, i, cls) ==
  IF i > Len(t) THEN 0
  ELSE CHOOSE k \in 0..(Len(t) - i + 1) :
         /\ i + k > Len(t) \/ t[i + k] \notin cls
         /\ \A m \in 0..(k - 1) : t[i + m] \in cls

\* str.__contains__: w is a substring of t.
Contains(t, w) == \E i \in 1..Len(t) : LitAt(t, i, w)

\* str.startswith
StartsWith(s, prefix) == LitAt(s, 1, prefix)

(***************************************************************************)
(* The three compiled patterns of RepoAuditor.__init__.                    *)
(* A match-at operator returns the position just after the match that      *)
(* starts at i, or 0 when the pattern does not match at i.                 *)
(***************************************************************************)
Whitespace == {" ", "\n"}

\* [^\s"'()<>] and the backquote
UrlChar == (Range(Ascii) \cup {"\n"}) \ (Whitespace \cup {"\"", "'", Backquote, "(", ")", "<", ">"})

\* https?:// followed by one or more UrlChar
url_pattern_at(t, i) ==
  LET http == <<"h", "t", "t", "p">>
      sep  == <<":", "/", "/">>
      Rest(j) == IF LitAt(t, j, sep) /\ RunLen(t, j + 3, UrlChar) >= 1
                 THEN j + 3 + RunLen(t, j + 3, UrlChar) ELSE 0
  IN  IF ~LitAt(t, i, http) THEN 0
      ELSE IF LitAt(t, i + 4, <<"s">>) /\ Rest(i + 5) > 0 THEN Rest(i + 5)
      ELSE Rest(i + 4)

\* [A-Z0-9_]
EnvChar == CharsBetween("A", "Z") \cup CharsBetween("0", "9") \cup {"_"}

Quote == {"'", "\""}

\* process\.env\.([A-Z0-9_]+)|os\.environ\[['"]([A-Z0-9_]+)['"]\]|getenv\(['"]([A-Z0-9_]+)['"]\)
\* Returns [end, name]: end as above, name the text of the group that took part.
env_pattern_at(t, i) ==
  LET dotted == <<"p", "r", "o", "c", "e", "s", "s", ".", "e", "n", "v", ".">>
      subscr == <<"o", "s", ".", "e", "n", "v", "i", "r", "o", "n", "[">>
      call   == <<"g", "e", "t", "e", "n", "v", "(">>
      none   == [end |-> 0, name |-> <<>>]
      \* open ['"] NAME ['"] close, the opening literal ending just before j
      Quoted(j, close) ==
        LET n == RunLen(t, j + 1, EnvChar)
        IN  IF /\ j <= Len(t) /\ t[j] \in Quote
               /\ n >= 1
               /\ j + 1 + n <= Len(t) /\ t[j + 1 + n] \in Quote
               /\ LitAt(t, j + 2 + n, close)
            THEN [end |-> j + 3 + n, name |-> SubSeq(t, j + 1, j + n)]
            ELSE none
  IN  IF LitAt(t, i, dotted)
      THEN LET n == RunLen(t, i + 12, EnvChar)
           IN  IF n >= 1 THEN [end |-> i + 12 + n, name |-> SubSeq(t, i + 12, i + 11 + n)]
               ELSE none
      ELSE IF LitAt(t, i, subscr) THEN Quoted(i + 11, <<"]">>)
      ELSE IF LitAt(t, i, call) THEN Quoted(i + 7, <<")">>)
      ELSE none

\* [A-Za-z0-9+/]
BlobChar == CharsBetween("A", "Z") \cup CharsBetween("a", "z") \cup CharsBetween("0", "9") \cup {"+", "/"}

\* The lower bound of the quantifier {128,}.
BlobMin == 128

\* The pattern with the quantifier bound off by one: {129,}.
blob_pattern_at_off_by_one(t, i) ==
  LET n == RunLen(t, i, BlobChar)
  IN  IF n > BlobMin THEN i + n ELSE 0

\* [A-Za-z0-9+/]{128,}
blob_pattern_at(t, i) ==
  LET n == RunLen(t, i, BlobChar)
  IN  IF n >= BlobMin THEN i + n ELSE 0

\* The scan of findall: the leftmost position from i on at which a match
\* starts, given the set of positions where the pattern matches; 0 if none.
Leftmost(starts, i) ==
  IF \E j \in starts : j >= i
  THEN CHOOSE j \in starts : j >= i /\ \A k \in starts : k >= i => j <= k
  ELSE 0

\* url_pattern.findall(t), from position i on
RECURSIVE url_findall(_, _)
url_findall(t, i) ==
  LET j == Leftmost({k \in i..Len(t) : url_pattern_at(t, k) > 0}, i)
  IN  IF j = 0 THEN <<>>
      ELSE <<SubSeq(t, j, url_pattern_at(t, j) - 1)>> \o url_findall(t, url_pattern_at(t, j))

\* env_pattern.findall(t) followed by the selection of the non-empty group
RECURSIVE env_findall(_, _)
env_findall(t, i) ==
  LET j == Leftmost({k \in i..Len(t) : env_pattern_at(t, k).end > 0}, i)
  IN  IF j = 0 THEN <<>>
      ELSE <<env_pattern_at(t, j).name>> \o env_findall(t, env_pattern_at(t, j).end)

\* blob_pattern.findall(t)
RECURSIVE blob_findall(_, _)
blob_findall(t, i) ==
  LET j == Leftmost({k \in i..Len(t) : blob_pattern_at(t, k) > 0}, i)
  IN  IF j = 0 THEN <<>>
      ELSE <<SubSeq(t, j, blob_pattern_at(t, j) - 1)>> \o blob_findall(t, blob_pattern_at(t, j))

\* The list with fork( moved to the front.
dangerous_fns_reordered ==
  << <<"f", "o", "r", "k", "(">>,
     <<"e", "v", "a", "l", "(">>,
     <<"e", "x", "e", "c", "(">>,
     <<"s", "p", "a", "w", "n", "(">>,
     <<"o", "s", ".", "s", "y", "s", "t", "e", "m", "(">>,
     <<"s", "u", "b", "p", "r", "o", "c", "e", "s", "s", ".", "r", "u", "n", "(">>,
     <<"s", "e", "t", "T", "i", "m", "e", "o", "u", "t", "(">>,
     <<"s", "e", "t", "I", "n", "t", "e", "r", "v", "a", "l", "(">> >>

\* dangerous_fns of scan_file, in declaration order
dangerous_fns ==
  << <<"e", "v", "a", "l", "(">>,
     <<"e", "x", "e", "c", "(">>,
     <<"s", "p", "a", "w", "n", "(">>,
     <<"f", "o", "r", "k", "(">>,
     <<"o", "s", ".", "s", "y", "s", "t", "e", "m", "(">>,
     <<"s", "u", "b", "p", "r", "o", "c", "e", "s", "s", ".", "r", "u", "n", "(">>,
     <<"s", "e", "t", "T", "i", "m", "e", "o", "u", "t", "(">>,
     <<"s", "e", "t", "I", "n", "t", "e", "r", "v", "a", "l", "(">> >>


(***************************************************************************)
(* Paths.  A path is the tuple of its components (Path.parts), a component *)
(* a sequence of characters.                                               *)
(***************************************************************************)
Slash        == <<"/">>
DotGit       == <<".", "g", "i", "t">>
NodeModules  == <<"n", "o", "d", "e", "_", "m", "o", "d", "u", "l", "e", "s">>
Venv         == <<"v", "e", "n", "v">>
MyDotVenv    == <<"m", "y", ".", "v", "e", "n", "v">>
Venv2        == <<"v", "e", "n", "v", "2">>
DotCache     == <<".", "c", "a", "c", "h", "e">>
Proj         == <<"p", "r", "o", "j">>

\* The resolved absolute scan roots of the model: /srv/proj, /home/.cache/proj
\* and /opt/venv/proj.
Roots ==
  { <<Slash, <<"s", "r", "v">>, Proj>>,
    <<Slash, <<"h", "o", "m", "e">>, DotCache, Proj>>,
    <<Slash, <<"o", "p", "t">>, Venv, Proj>> }

\* The places, relative to the root, where the model can put a regular file:
\* a, b, .git/c, node_modules/c, venv/c and my.venv/venv2.
Candidates ==
  { << <<"a">> >>, << <<"b">> >>, <<DotGit, <<"c">> >>, <<NodeModules, <<"c">> >>,
    <<Venv, <<"c">> >>, <<MyDotVenv, Venv2>> }

(***************************************************************************)
(* File contents.  A file of the tree holds one of the texts below, or     *)
(* cannot be read.                                                         *)
(***************************************************************************)
Unreadable == "unreadable"

FileTexts ==
  [ plain |-> <<"x", " ", "=", " ", "1", "\n">>,
    \* a https://b.io/x?y=1 "http://a.io" https://b.io/x?y=1
    \* getenv('DB') os.environ["API_KEY"] process.env.DB
    net   |-> <<"a", " ", "h", "t", "t", "p", "s", ":", "/", "/", "b", ".", "i", "o", "/",
                "x", "?", "y", "=", "1", " ", "\"", "h", "t", "t", "p", ":", "/", "/", "a",
                ".", "i", "o", "\"", " ", "h", "t", "t", "p", "s", ":", "/", "/", "b", ".",
                "i", "o", "/", "x", "?", "y", "=", "1", "\n",
                "g", "e", "t", "e", "n", "v", "(", "'", "D", "B", "'", ")", " ", "o", "s",
                ".", "e", "n", "v", "i", "r", "o", "n", "[", "\"", "A", "P", "I", "_", "K",
                "E", "Y", "\"", "]", " ", "p", "r", "o", "c", "e", "s", "s", ".", "e", "n",
                "v", ".", "D", "B">>,
    \* fork(); eval(a); eval(b)
    calls |-> <<"f", "o", "r", "k", "(", ")", ";", " ", "e", "v", "a", "l", "(", "a", ")",
                ";", " ", "e", "v", "a", "l", "(", "b", ")">>,
    \* exec(getenv("DB")) https://b.io/x?y=1
    mixed |-> <<"e", "x", "e", "c", "(", "g", "e", "t", "e", "n", "v", "(", "\"", "D", "B",
                "\"", ")", ")", " ", "h", "t", "t", "p", "s", ":", "/", "/", "b", ".", "i",
                "o", "/", "x", "?", "y", "=", "1">>,
    \* runs of 127, 128, 129, 200 and again 128 characters of the blob class
    blobs |-> Rep("A", 127) \o <<"=">> \o Rep("b", 128) \o <<"\n">>
                \o Rep("/", 129) \o <<" ">> \o Rep("7", 200) \o <<"=">>
                \o Rep("b", 128) ]

TextNames == DOMAIN FileTexts

Contents == TextNames \cup {Unreadable}

\* The trees of the model: at most MaxFiles regular files, each at one of the
\* candidate places, with the directories that lead to them.
Trees ==
  UNION { [S -> Contents] : S \in { T \in SUBSET Candidates : Cardinality(T) <= MaxFiles } }

VARIABLES
  root,          \* self.root: the parts of the resolved root path
  root_kind,     \* what the root path names: "dir", "file" or "missing"
  tree,          \* the regular files under the root: relative parts -> content
  pc,            \* "constructed", "walking", "returned" or "exited"
  pending,       \* the entries the rglob generator has not yielded yet
  report,        \* self.report
  audits,        \* audit() calls made so far, over all auditors
  calls,         \* audit() calls made on the current auditor
  returned,      \* the reports returned by audit() so far, oldest first
  scan_calls,    \* the files the current auditor's last audit() passed to scan_file
  stdout,        \* what the process has printed
  exit_status    \* <<>> while the process runs, <<status>> once it has ended

vars == <<root, root_kind, tree, pc, pending, report, audits, calls, returned,
          scan_calls, stdout, exit_status>>

(***************************************************************************)
(* The file system as pathlib sees it.                                     *)
(***************************************************************************)
\* The directories under the root.
Dirs == UNION { { SubSeq(p, 1, k) : k \in 1..(Len(p) - 1) } : p \in DOMAIN tree }

\* What self.root.rglob('*') yields, as paths relative to the root: every
\* entry below the root, hidden ones included; nothing if the root is not a
\* directory.
rglob == IF root_kind = "dir" THEN DOMAIN tree \cup Dirs ELSE {}

\* Path.is_file
is_file(rel) == rel \in DOMAIN tree

\* Path.relative_to
relative_to(path, base) == SubSeq(path, Len(base) + 1, Len(path))

\* str() of a relative path: the components joined by "/".
RECURSIVE path_str(_)
path_str(parts) ==
  IF Len(parts) = 0 THEN <<>>
  ELSE IF Len(parts) = 1 THEN parts[1]
  ELSE parts[1] \o <<"/">> \o path_str(Tail(parts))

(***************************************************************************)
(* RepoAuditor                                                             *)
(***************************************************************************)
\* self.report as __init__ builds it. A collection is a Python set or a
\* Python list; the two are told apart by the tag.
EmptyReport ==
  [ network_endpoints |-> [type |-> "set", val |-> {}],
    env_vars          |-> [type |-> "set", val |-> {}],
    dangerous_calls   |-> <<>>,
    suspicious_blobs  |-> <<>>,
    files_scanned     |-> 0 ]

\* The condition without the test for venv.
is_filtered_without_venv(path) ==
  \/ \E k \in DOMAIN path : StartsWith(path[k], <<".">>)
  \/ NodeModules \in Range(path)

\* The condition of the "continue" in audit(), on the parts of the full path.
is_filtered(path) ==
  \/ \E k \in DOMAIN path : StartsWith(path[k], <<".">>)
  \/ NodeModules \in Range(path)
  \/ Venv \in Range(path)

\* What the four detectors of scan_file find in each text of the library.
Findings ==
  [ n \in TextNames |->
      [ urls  |-> url_findall(FileTexts[n], 1),
        envs  |-> env_findall(FileTexts[n], 1),
        blobs |-> blob_findall(FileTexts[n], 1),
        fns   |-> SelectSeq(dangerous_fns, LAMBDA fn : Contains(FileTexts[n], fn)) ] ]

\* scan_file: the report after scanning the file at path. Any exception (a
\* failed read, .add on a list) ends the scan of the file and is swallowed.
scan_file(rep, path) ==
  LET rel  == relative_to(path, root)
      file == path_str(rel)
  IN  IF tree[rel] = Unreadable THEN rep
      ELSE
        LET f  == Findings[tree[rel]]
            raise1 == f.urls # <<>> /\ rep.network_endpoints.type # "set"
            r1 == IF f.urls = <<>> THEN rep
                  ELSE [rep EXCEPT !.network_endpoints.val = @ \cup Range(f.urls)]
            raise2 == f.envs # <<>> /\ rep.env_vars.type # "set"
            r2 == IF f.envs = <<>> THEN r1
                  ELSE [r1 EXCEPT !.env_vars.val = @ \cup Range(f.envs)]
            r3 == [r2 EXCEPT !.suspicious_blobs =
                     @ \o [i \in 1..Len(f.blobs) |-> [file |-> file, length |-> Len(f.blobs[i])]]]
            r4 == [r3 EXCEPT !.dangerous_calls =
                     @ \o [i \in 1..Len(f.fns) |-> [file |-> file, call |-> f.fns[i]]]]
        IN  IF raise1 THEN rep
            ELSE IF raise2 THEN r1
            ELSE r4

\* The order of str: by code point, character by character.
StrLess(a, b) ==
  \E k \in 1..(Len(a) + 1) :
    /\ k - 1 <= Len(b)
    /\ \A m \in 1..(k - 1) : a[m] = b[m]
    /\ \/ k > Len(a) /\ k <= Len(b)
       \/ k <= Len(a) /\ k <= Len(b) /\ Ord(a[k]) < Ord(b[k])

\* list(x): the elements of a set in some order, a list as it is.
RECURSIVE list_of_set(_)
list_of_set(S) ==
  IF S = {} THEN <<>>
  ELSE LET x == CHOOSE y \in S : TRUE IN <<x>> \o list_of_set(S \ {x})

list(c) == IF c.type = "set" THEN list_of_set(c.val) ELSE c.val

\* sorted(xs, reverse=True)
RECURSIVE sorted_reverse(_)
sorted_reverse(xs) ==
  IF xs = <<>> THEN <<>>
  ELSE LET rest == sorted_reverse(Tail(xs))
           n    == Cardinality({ i \in DOMAIN rest : StrLess(Head(xs), rest[i]) })
       IN  SubSeq(rest, 1, n) \o <<Head(xs)>> \o SubSeq(rest, n + 1, Len(rest))

\* sorted(xs)
RECURSIVE sorted(_)
sorted(xs) ==
  IF xs = <<>> THEN <<>>
  ELSE LET rest == sorted(Tail(xs))
           n    == Cardinality({ i \in DOMAIN rest : StrLess(rest[i], Head(xs)) })
       IN  SubSeq(rest, 1, n) \o <<Head(xs)>> \o SubSeq(rest, n + 1, Len(rest))

\* The walk when the failure of a read is not caught inside the loop body:
\* it ends at the file that cannot be read.
Remaining_until_failure(pend, rel) ==
  IF is_file(rel) /\ ~is_filtered(root \o rel) /\ tree[rel] = Unreadable
  THEN {}
  ELSE pend \ {rel}

\* The entries the walk still has to visit after the one at rel.
Remaining(pend, rel) == pend \ {rel}

(***************************************************************************)
(* Actions                                                                 *)
(***************************************************************************)
Init ==
  /\ root \in Roots
  /\ root_kind \in {"dir", "file", "missing"}
  /\ tree \in IF root_kind = "dir" THEN Trees ELSE { <<>> }
  /\ pc = "constructed"
  /\ pending = {}
  /\ report = EmptyReport
  /\ audits = 0
  /\ calls = 0
  /\ returned = <<>>
  /\ scan_calls = {}
  /\ stdout = <<>>
  /\ exit_status = <<>>

\* __main__ run once more on the same tree: RepoAuditor(target).
Construct ==
  /\ pc = "exited"
  /\ audits < MaxAudits
  /\ pc' = "constructed"
  /\ report' = EmptyReport
  /\ calls' = 0
  /\ scan_calls' = {}
  /\ stdout' = <<>>
  /\ exit_status' = <<>>
  /\ UNCHANGED <<root, root_kind, tree, pending, audits, returned>>

\* audit() is entered: the rglob generator is created.
EnterAudit ==
  /\ audits < MaxAudits
  /\ pc' = "walking"
  /\ pending' = rglob
  /\ audits' = audits + 1
  /\ calls' = calls + 1
  /\ scan_calls' = {}
  /\ UNCHANGED <<root, root_kind, tree, report, returned, stdout, exit_status>>

\* The first audit() of an auditor.
AuditBegin == pc = "constructed" /\ EnterAudit

\* audit() called again on an auditor whose audit() has returned.
AuditAgain == pc = "returned" /\ EnterAudit

\* One iteration of the loop of audit(): the generator yields an entry (a
\* directory before what it holds, otherwise in no fixed order) and the body
\* runs on it.
Visit(rel) ==
  /\ pc = "walking"
  /\ rel \in pending
  /\ Len(rel) > 1 => SubSeq(rel, 1, Len(rel) - 1) \notin pending
  /\ LET path == root \o rel
     IN  IF is_filtered(path) \/ ~is_file(rel)
         THEN UNCHANGED <<report, scan_calls>>
         ELSE /\ report' = scan_file([report EXCEPT !.files_scanned = @ + 1], path)
              /\ scan_calls' = scan_calls \cup {rel}
  /\ pending' = Remaining(pending, rel)
  /\ UNCHANGED <<root, root_kind, tree, pc, audits, calls, returned, stdout, exit_status>>

\* The end of audit(): the sets become sorted lists and the report is returned.
AuditReturn ==
  /\ pc = "walking"
  /\ pending = {}
  /\ report' = [report EXCEPT
                  !.network_endpoints = [type |-> "list", val |-> sorted(list(report.network_endpoints))],
                  !.env_vars = [type |-> "list", val |-> sorted(list(report.env_vars))]]
  /\ returned' = Append(returned, [fresh |-> calls = 1, report |-> report'])
  /\ pc' = "returned"
  /\ UNCHANGED <<root, root_kind, tree, pending, audits, calls, scan_calls, stdout, exit_status>>

\* __main__: print(json.dumps(result, indent=2)) and the normal end of the
\* interpreter.
MainExit ==
  /\ pc = "returned"
  /\ stdout' = <<report>>
  /\ exit_status' = <<0>>
  /\ pc' = "exited"
  /\ UNCHANGED <<root, root_kind, tree, pending, report, audits, calls, returned, scan_calls>>

\* The program: every auditor audits once, as __main__ does.
Next ==
  \/ Construct
  \/ AuditBegin
  \/ \E rel \in pending : Visit(rel)
  \/ AuditReturn
  \/ MainExit

Spec == Init /\ [][Next]_vars

\* The class used as a library: audit() may be called again on an auditor.
NextReuse ==
  \/ Next
  \/ AuditAgain

SpecReuse == Init /\ [][NextReuse]_vars


(***************************************************************************)
(* Vocabulary of the properties.                                           *)
(***************************************************************************)
Readable(rel) == tree[rel] # Unreadable

\* The regular files that pass the filter of audit().
Eligible == { rel \in DOMAIN tree : ~is_filtered(root \o rel) }

\* The files whose content scan_file has read.
ScannedFiles == { rel \in scan_calls : Readable(rel) }

\* A path component that excludes what lies under it: a hidden name,
\* node_modules or venv.
ExcludingPart(part) == part[1] = "." \/ part = NodeModules \/ part = Venv

\* Some component of the path below the root excludes it.
ExcludedBelowRoot(rel) == \E k \in DOMAIN rel : ExcludingPart(rel[k])

\* The text w occurs in the text t.
Occurs(w, t) == \E i \in 1..(Len(t) - Len(w) + 1) : SubSeq(t, i, i + Len(w) - 1) = w

\* The entries of a findings list that belong to the file at rel.
EntriesOf(findings, rel) == SelectSeq(findings, LAMBDA e : e.file = path_str(rel))

\* The elements of a set of integers in ascending order.
Ascending(S) ==
  [k \in 1..Cardinality(S) |-> CHOOSE x \in S : Cardinality({ y \in S : y < x }) = k - 1]

\* The collections of findings of a report.
Collections(rep) ==
  <<rep.network_endpoints, rep.env_vars, rep.dangerous_calls, rep.suspicious_blobs>>

(***************************************************************************)
(* Properties                                                              *)
(***************************************************************************)

\* C1: when audit() returns on a fresh auditor, files_scanned is the number of
\* files that passed the filter and whose content was read successfully; a
\* file whose read fails is not counted.
C1_FilesScannedCountsReadFiles ==
  (pc = "returned" /\ calls = 1) =>
    report.files_scanned = Cardinality({ rel \in Eligible : Readable(rel) })

\* C2: any two audits of the same unchanged tree, each by a fresh auditor,
\* return identical reports, whatever order the enumeration yields the
\* entries in.
C2_FreshAuditsAgree ==
  \A i, j \in DOMAIN returned :
    (returned[i].fresh /\ returned[j].fresh) => returned[i].report = returned[j].report

\* C3: a file with a hidden, node_modules or venv component below the root is
\* never passed to scan_file; visiting it changes neither files_scanned nor
\* any collection of findings.
C3_ExcludedFilesLeaveNoTrace ==
  [][\A rel \in pending :
       (pc = "walking" /\ rel \notin pending' /\ is_file(rel) /\ ExcludedBelowRoot(rel))
         => (report' = report /\ rel \notin scan_calls')]_vars

\* An audit under an unfiltered root has returned; it scanned a file and met
\* an excluded file whose text holds findings.
C3_Witness ==
  /\ pc = "returned"
  /\ report.files_scanned >= 1
  /\ \E rel \in DOMAIN tree : ExcludedBelowRoot(rel) /\ tree[rel] = "mixed"

\* C4: in the report audit() returns, network_endpoints and env_vars are lists
\* in strictly ascending order (so without duplicates) that hold exactly the
\* distinct URLs and variable names matched in the files that were read.
C4_SetsSortedAndExact ==
  pc = "returned" =>
    LET ne == report.network_endpoints
        ev == report.env_vars
    IN  /\ ne.type = "list" /\ ev.type = "list"
        /\ \A i \in 1..(Len(ne.val) - 1) : StrLess(ne.val[i], ne.val[i + 1])
        /\ \A i \in 1..(Len(ev.val) - 1) : StrLess(ev.val[i], ev.val[i + 1])
        /\ Range(ne.val) = UNION { Range(Findings[tree[rel]].urls) : rel \in ScannedFiles }
        /\ Range(ev.val) = UNION { Range(Findings[tree[rel]].envs) : rel \in ScannedFiles }

\* A report with two endpoints and two variable names has been returned; one
\* URL and one name occur twice in one file and in two of the files read.
C4_Witness ==
  /\ pc = "returned"
  /\ Len(report.network_endpoints.val) = 2
  /\ Len(report.env_vars.val) = 2
  /\ \E r1, r2 \in ScannedFiles :
       r1 # r2 /\ Range(Findings[tree[r1]].envs) \cap Range(Findings[tree[r2]].envs) # {}
  /\ \E r1, r2 \in ScannedFiles :
       r1 # r2 /\ Range(Findings[tree[r1]].urls) \cap Range(Findings[tree[r2]].urls) # {}

\* The signature list as the claim gives it.
ClaimedSignatures ==
  << <<"e", "v", "a", "l", "(">>,
     <<"e", "x", "e", "c", "(">>,
     <<"s", "p", "a", "w", "n", "(">>,
     <<"f", "o", "r", "k", "(">>,
     <<"o", "s", ".", "s", "y", "s", "t", "e", "m", "(">>,
     <<"s", "u", "b", "p", "r", "o", "c", "e", "s", "s", ".", "r", "u", "n", "(">>,
     <<"s", "e", "t", "T", "i", "m", "e", "o", "u", "t", "(">>,
     <<"s", "e", "t", "I", "n", "t", "e", "r", "v", "a", "l", "(">> >>

\* The signatures that occur in each text of the library, in the order of the
\* claimed list.
ClaimedCalls ==
  [ n \in TextNames |-> SelectSeq(ClaimedSignatures, LAMBDA sig : Occurs(sig, FileTexts[n])) ]

\* C5: the dangerous_calls entries of a scanned file are the signatures of the
\* fixed list that occur in its text, each once, in the order of the list.
C5_CallsInDeclarationOrder ==
  \A rel \in ScannedFiles :
    LET es == EntriesOf(report.dangerous_calls, rel)
    IN  [i \in 1..Len(es) |-> es[i].call] = ClaimedCalls[tree[rel]]

\* A scanned file whose text has fork( before two eval( is reported as eval(
\* and then fork(.
C5_Witness ==
  \E rel \in ScannedFiles :
    /\ tree[rel] = "calls"
    /\ EntriesOf(report.dangerous_calls, rel) =
         << [file |-> path_str(rel), call |-> <<"e", "v", "a", "l", "(">>],
            [file |-> path_str(rel), call |-> <<"f", "o", "r", "k", "(">>] >>

\* C6: a root that does not exist or is not a directory ends the process with
\* a non-zero status and without a printed report.
C6_InvalidRootIsFatal ==
  (pc = "exited" /\ root_kind # "dir") => (exit_status # <<0>> /\ stdout = <<>>)

\* The lengths, in order of appearance, of the maximal runs of at least 128
\* characters of [A-Za-z0-9+/] in each text of the library.
ClaimedBlobLengths ==
  [ n \in TextNames |->
      LET t == FileTexts[n]
          Starts == { i \in 1..Len(t) : t[i] \in BlobChar /\ (i = 1 \/ t[i - 1] \notin BlobChar) }
          Last(i) == CHOOSE j \in i..Len(t) :
                       /\ \A m \in i..j : t[m] \in BlobChar
                       /\ j = Len(t) \/ t[j + 1] \notin BlobChar
          Long == Ascending({ i \in Starts : Last(i) - i + 1 >= 128 })
      IN  [k \in 1..Len(Long) |-> Last(Long[k]) - Long[k] + 1] ]

\* C7: the suspicious_blobs entries of a scanned file are, in order of
\* appearance, the lengths of the maximal runs of at least 128 blob characters
\* of its text, one entry per run.
C7_BlobsAreMaximalRuns ==
  \A rel \in ScannedFiles :
    LET es == EntriesOf(report.suspicious_blobs, rel)
    IN  [i \in 1..Len(es) |-> es[i].length] = ClaimedBlobLengths[tree[rel]]

\* A scanned file with runs of 127, 128, 129, 200 and 128 characters has the
\* entries 128, 129, 200, 128.
C7_Witness ==
  \E rel \in ScannedFiles :
    /\ tree[rel] = "blobs"
    /\ LET es == EntriesOf(report.suspicious_blobs, rel)
       IN  [i \in 1..Len(es) |-> es[i].length] = <<128, 129, 200, 128>>

\* C8: a report returned by a further audit() call on the same auditor equals
\* the report the call before it returned.
C8_ReportFrozenOnceFinalized ==
  \A i \in DOMAIN returned :
    ~returned[i].fresh => returned[i].report = returned[i - 1].report

\* C9: the visit of an eligible file whose read fails leaves the four
\* collections of findings as they were and the walk goes on with the other
\* entries; when audit() returns, every eligible file has been passed to
\* scan_file.
C9_FailedReadIsSkipped ==
  /\ [][\A rel \in pending :
          (pc = "walking" /\ rel \notin scan_calls /\ rel \in scan_calls' /\ ~Readable(rel))
            => /\ Collections(report') = Collections(report)
               /\ pending' = pending \ {rel}
               /\ pc' = "walking"]_vars
  /\ [](pc = "returned" => scan_calls = Eligible)

\* An audit that met an unreadable eligible file has returned with findings
\* of another file.
C9_Witness ==
  /\ pc = "returned"
  /\ \E rel \in scan_calls : ~Readable(rel)
  /\ report.dangerous_calls # <<>>

\* C10: every readable regular file whose components below the root are
\* neither hidden nor node_modules nor venv is scanned, wherever the root is.
C10_FilterIgnoresRootLocation ==
  pc = "returned" =>
    \A rel \in DOMAIN tree : (~ExcludedBelowRoot(rel) /\ Readable(rel)) => rel \in scan_calls

=============================================================================
